---- MODULE Spec2Model ----
(***************************************************************************)
(* The HTML regex scanner of General_Helpful_Code_Snippets:                *)
(*   html_regex_scanner/html_scanner_dynamic.py  (named/positional groups) *)
(*   html_regex_scanner/html_scanner.py          (five fixed columns)      *)
(*   html_regex_scanner/batch_runner.py          (batch driver)            *)
(* and the CSV to SQL converter, csv_to_sql_converter/csv_to_sql.py.       *)
(* One run of a scanner is a state machine over the steps of its main();   *)
(* the batch driver is a second state machine over its job list, and one   *)
(* call of csv_to_sql_query a third over the rows of its CSV file.         *)
(***************************************************************************)
EXTENDS Integers, Sequences, FiniteSets, TLC

(***************************************************************************)
(* Bounds of the model.                                                    *)
(***************************************************************************)
\* longest enumerated content text
MaxLen == 3
\* longest enumerated job list of the batch driver
MaxJobs == 3
\* most columns of an enumerated CSV header (a row has up to one more cell)
MaxCols == 2
\* most data rows of an enumerated CSV file
MaxRows == 2

(***************************************************************************)
(* Values.  A captured value is a Python str (a sequence of characters);   *)
(* a group that took no part in a match is Python's None.                  *)
(***************************************************************************)
None == [some |-> FALSE, s |-> << >>]
Str(s) == [some |-> TRUE, s |-> s]

\* v named x in F: v is worked out once, however often F uses it
Bind(v, F(_)) == CHOOSE y \in {F(x) : x \in {v}} : TRUE

(***************************************************************************)
(* Patterns.  re.compile turns the pattern text into a compiled pattern or *)
(* raises re.error; the compiled form is a syntax tree.                    *)
(***************************************************************************)
NoName == ""
Chr(cs) == [t |-> "chr", cs |-> cs]
Cat(l, r) == [t |-> "cat", l |-> l, r |-> r]
Alt(l, r) == [t |-> "alt", l |-> l, r |-> r]
Grp(i, nm, p) == [t |-> "grp", idx |-> i, name |-> nm, p |-> p]
Star(p) == [t |-> "star", p |-> p]
Plus(p) == [t |-> "plus", p |-> p]
Opt(p) == [t |-> "opt", p |-> p]
Eps == [t |-> "eps"]

Digit == Chr({"1", "2", "3"})

\* the pattern texts given on the command line
PatternTexts ==
    { "(\\d+)", "(?P<num>\\d+)", "(?P<a>x)|(?P<b>y)", "\\d+", "(?P<a>x)(y)?",
      "(?P<regex_pattern>[xy])(?P<n>1?)", "(x)|(y*)", "x*", "(",
      "(x)(y?)()()()(1?)", "(foo)" }

\* re.compile(pattern): [ok, ast, groups, names, err]
\*   groups = pattern.groups, names = the keys of pattern.groupindex in
\*   insertion (declaration) order, err = str(re.error)
re_compile(pattern) ==
    CASE pattern = "(\\d+)" ->
           [ok |-> TRUE, ast |-> Grp(1, NoName, Plus(Digit)), groups |-> 1,
            names |-> << >>, idx |-> << >>, err |-> << >>]
      [] pattern = "(?P<num>\\d+)" ->
           [ok |-> TRUE, ast |-> Grp(1, "num", Plus(Digit)), groups |-> 1,
            names |-> <<"num">>, idx |-> <<1>>, err |-> << >>]
      [] pattern = "(?P<a>x)|(?P<b>y)" ->
           [ok |-> TRUE,
            ast |-> Alt(Grp(1, "a", Chr({"x"})), Grp(2, "b", Chr({"y"}))),
            groups |-> 2, names |-> <<"a", "b">>, idx |-> <<1, 2>>,
            err |-> << >>]
      [] pattern = "\\d+" ->
           [ok |-> TRUE, ast |-> Plus(Digit), groups |-> 0,
            names |-> << >>, idx |-> << >>, err |-> << >>]
      [] pattern = "(?P<a>x)(y)?" ->
           [ok |-> TRUE,
            ast |-> Cat(Grp(1, "a", Chr({"x"})), Opt(Grp(2, NoName, Chr({"y"})))),
            groups |-> 2, names |-> <<"a">>, idx |-> <<1>>, err |-> << >>]
      [] pattern = "(?P<regex_pattern>[xy])(?P<n>1?)" ->
           [ok |-> TRUE,
            ast |-> Cat(Grp(1, "regex_pattern", Chr({"x", "y"})),
                        Grp(2, "n", Opt(Chr({"1"})))),
            groups |-> 2, names |-> <<"regex_pattern", "n">>, idx |-> <<1, 2>>,
            err |-> << >>]
      [] pattern = "(x)|(y*)" ->
           [ok |-> TRUE,
            ast |-> Alt(Grp(1, NoName, Chr({"x"})), Grp(2, NoName, Star(Chr({"y"})))),
            groups |-> 2, names |-> << >>, idx |-> << >>, err |-> << >>]
      [] pattern = "x*" ->
           [ok |-> TRUE, ast |-> Star(Chr({"x"})), groups |-> 0,
            names |-> << >>, idx |-> << >>, err |-> << >>]
      [] pattern = "(" ->
           [ok |-> FALSE, ast |-> Eps, groups |-> 0, names |-> << >>,
            idx |-> << >>,
            err |-> <<"missing ), unterminated subpattern", "at position 0">>]
      [] pattern = "(x)(y?)()()()(1?)" ->
           [ok |-> TRUE,
            ast |-> Cat(Grp(1, NoName, Chr({"x"})),
                    Cat(Grp(2, NoName, Opt(Chr({"y"}))),
                    Cat(Grp(3, NoName, Eps),
                    Cat(Grp(4, NoName, Eps),
                    Cat(Grp(5, NoName, Eps),
                        Grp(6, NoName, Opt(Chr({"1"})))))))),
            groups |-> 6, names |-> << >>, idx |-> << >>, err |-> << >>]
      [] pattern = "(foo)" ->
           [ok |-> TRUE,
            ast |-> Grp(1, NoName, Cat(Chr({"f"}), Cat(Chr({"o"}), Chr({"o"})))),
            groups |-> 1, names |-> << >>, idx |-> << >>, err |-> << >>]

(***************************************************************************)
(* The match engine (Python's re: backtracking, leftmost, greedy, the      *)
(* left branch of an alternation first).  Match(p, txt, i, caps) is the    *)
(* sequence, in the engine's order of preference, of the ways p matches    *)
(* txt from offset i: each an end offset e and the captures c made so far. *)
(***************************************************************************)
RECURSIVE Match(_, _, _, _)
RECURSIVE Continue(_, _, _, _)
RECURSIVE Capture(_, _, _, _, _)

Match(p, txt, i, caps) ==
    CASE p.t = "chr" ->
           IF i < Len(txt) /\ txt[i + 1] \in p.cs
           THEN <<[e |-> i + 1, c |-> caps]>> ELSE << >>
      [] p.t = "eps" -> <<[e |-> i, c |-> caps]>>
      [] p.t = "cat" ->
           Bind(Match(p.l, txt, i, caps),
                LAMBDA L : Continue(L, Len(L), p.r, txt))
      [] p.t = "alt" -> Match(p.l, txt, i, caps) \o Match(p.r, txt, i, caps)
      [] p.t = "grp" ->
           Bind(Match(p.p, txt, i, caps),
                LAMBDA L : Capture(L, Len(L), p.idx, txt, i))
      [] p.t = "opt" -> Match(p.p, txt, i, caps) \o <<[e |-> i, c |-> caps]>>
      [] p.t = "star" ->
           Bind(SelectSeq(Match(p.p, txt, i, caps), LAMBDA r : r.e > i),
                LAMBDA L : Continue(L, Len(L), p, txt))
           \o <<[e |-> i, c |-> caps]>>
      [] p.t = "plus" ->
           Bind(Match(p.p, txt, i, caps),
                LAMBDA L : Continue(L, Len(L), Star(p.p), txt))

\* the ways p matches after each of the first n ways in L
Continue(L, n, p, txt) ==
    IF n = 0 THEN << >>
    ELSE Continue(L, n - 1, p, txt) \o Match(p, txt, L[n].e, L[n].c)

\* the first n ways in L, each with group idx set to what it spans from i
Capture(L, n, idx, txt, i) ==
    IF n = 0 THEN << >>
    ELSE Append(Capture(L, n - 1, idx, txt, i),
                [e |-> L[n].e,
                 c |-> [L[n].c EXCEPT ![idx] = Str(SubSeq(txt, i + 1, L[n].e))]])

\* the matches at offset s; right after an empty match (must_advance) the
\* engine takes no empty match at pos
Candidates(cp, txt, s, pos, must_advance) ==
    IF must_advance /\ s = pos
    THEN SelectSeq(Match(cp.ast, txt, s, [g \in 1..cp.groups |-> None]),
                   LAMBDA r : r.e > s)
    ELSE Match(cp.ast, txt, s, [g \in 1..cp.groups |-> None])

\* the scanner behind finditer and findall: the first match at the leftmost
\* offset s >= pos that has one, then on from its end
RECURSIVE Scan(_, _, _, _, _)
Scan(cp, txt, s, pos, must_advance) ==
    IF s > Len(txt) THEN << >>
    ELSE Bind(Candidates(cp, txt, s, pos, must_advance),
              LAMBDA C :
                IF Len(C) = 0 THEN Scan(cp, txt, s + 1, pos, must_advance)
                ELSE <<[start |-> s, end |-> C[1].e, c |-> C[1].c]>>
                     \o Scan(cp, txt, C[1].e, C[1].e, C[1].e = s))

\* compiled_pattern.finditer(text): the match objects, in text order
finditer(cp, txt) == Scan(cp, txt, 0, 0, FALSE)

\* match.group(0), match.groups(), match.groupdict()
group0(m, txt) == Str(SubSeq(txt, m.start + 1, m.end))
groups(m, cp) == [g \in 1..cp.groups |-> m.c[g]]
groupdict(m, cp) ==
    [n \in {cp.names[k] : k \in 1..Len(cp.names)} |->
        m.c[cp.idx[CHOOSE k \in 1..Len(cp.names) : cp.names[k] = n]]]

\* compiled_pattern.findall(text): a str per match for at most one group, a
\* tuple of str otherwise, and '' for a group that took no part
EmptyIfNone(v) == IF v.some THEN v ELSE Str(<< >>)
findall(cp, txt) ==
    Bind(finditer(cp, txt), LAMBDA ms :
      [k \in 1..Len(ms) |->
         IF cp.groups = 0 THEN [tuple |-> FALSE, v |-> group0(ms[k], txt)]
         ELSE IF cp.groups = 1
              THEN [tuple |-> FALSE, v |-> EmptyIfNone(ms[k].c[1])]
              ELSE [tuple |-> TRUE,
                    v |-> [g \in 1..cp.groups |-> EmptyIfNone(ms[k].c[g])]]]
      \o << >>)

(***************************************************************************)
(* The command line and the world a run sees.                              *)
(***************************************************************************)
Dynamic == "html_scanner_dynamic.py"
Static == "html_scanner.py"
Scripts == {Dynamic, Static}

\* an optional argument that was not given (argparse's None)
NoArg == "<None>"

\* the source argument: what os.path.exists, open, str.startswith and
\* requests.get make of it
Sources == {"page.html", "locked.html", "https://h/p", "https://down/p", "nowhere"}
path_exists(source) == source \in {"page.html", "locked.html"}
can_open(source) == source = "page.html"
is_url(source) == source \in {"https://h/p", "https://down/p"}
can_get(source) == source = "https://h/p"
Retrievable(source) ==
    \/ path_exists(source) /\ can_open(source)
    \/ ~path_exists(source) /\ is_url(source) /\ can_get(source)

Alphabet == {"x", "y", "1"}
RECURSIVE TextsUpTo(_)
TextsUpTo(n) ==
    IF n = 0 THEN {<< >>}
    ELSE LET S == TextsUpTo(n - 1)
         IN  S \cup {Append(t, a) : t \in S, a \in Alphabet}
ScenarioTexts ==
    { <<"a", "1", " ", "b", "2", "2", " ", "c", "3">>, <<"f", "o", "o">> }
Texts == TextsUpTo(MaxLen) \cup ScenarioTexts

VARIABLES
    script,            \* which scanner runs
    args,              \* argparse's namespace
    page,              \* the text behind args.source
    pc,                \* the statement of main() reached
    output_file,       \* main's output_file
    content,           \* main's content
    matches,           \* main's matches
    group_names,       \* main's group_names
    has_named_groups,  \* main's has_named_groups
    df,                \* main's df: [columns, data]
    out,               \* what was printed: [stream, text]
    files,             \* the files written by to_csv, in order
    status,            \* the exit status once pc = "exit"
    jobs,              \* batch driver: the rows of the job CSV
    row_num,           \* batch driver: rows taken from the reader
    launched,          \* batch driver: per job launched, what subprocess.run did
    bout,              \* batch driver: what was printed
    bpc,               \* batch driver: "loop" or "done"
    csv_exists,        \* converter: csv_file.exists()
    csv_rows,          \* converter: the rows csv.reader yields, the header first
    read,              \* converter: rows taken from csv_reader
    headers,           \* converter: csv_to_sql_query's headers
    clean_headers,     \* converter: csv_to_sql_query's clean_headers
    first_row,         \* converter: csv_to_sql_query's first_row
    query_lines,       \* converter: csv_to_sql_query's query_lines
    sql_files,         \* converter: the files written, in order
    raised,            \* converter: the exception csv_to_sql_query raised
    qpc                \* converter: the statement of csv_to_sql_query reached

scanner_vars == <<script, args, page, pc, output_file, content, matches,
                  group_names, has_named_groups, df, out, files, status>>
batch_vars == <<jobs, row_num, launched, bout, bpc>>
sql_vars == <<csv_exists, csv_rows, read, headers, clean_headers, first_row,
              query_lines, sql_files, raised, qpc>>
vars == <<scanner_vars, batch_vars, sql_vars>>

(***************************************************************************)
(* fetch_content and source_to_filename (the same text in both scanners).  *)
(***************************************************************************)
\* fetch_content with the failed read or request swallowed: it reports the
\* error and returns an empty text instead of leaving through sys.exit(1)
fetch_content_swallow(source, text) ==
    IF path_exists(source) \/ is_url(source)
    THEN [ok |-> TRUE,
          text |-> IF Retrievable(source) THEN text ELSE << >>,
          out |-> IF Retrievable(source) THEN << >>
                  ELSE <<[stream |-> "stderr", text |-> <<"Error reading", source>>,
                          n |-> 0]>>]
    ELSE [ok |-> FALSE, text |-> << >>,
          out |-> <<[stream |-> "stderr", n |-> 0,
                     text |-> <<"Error:", source, "is neither a valid file path nor a URL">>]>>]

\* [ok, text, out]: the content, or the message printed before sys.exit(1)
fetch_content(source, text) ==
    IF path_exists(source)
    THEN IF can_open(source)
         THEN [ok |-> TRUE, text |-> text,
               out |-> <<[stream |-> "stdout", n |-> 0, text |-> <<"Reading from file:", source>>]>>]
         ELSE [ok |-> FALSE, text |-> << >>,
               out |-> <<[stream |-> "stdout", n |-> 0, text |-> <<"Reading from file:", source>>],
                         [stream |-> "stderr", n |-> 0, text |-> <<"Error reading file", source>>]>>]
    ELSE IF is_url(source)
         THEN IF can_get(source)
              THEN [ok |-> TRUE, text |-> text,
                    out |-> <<[stream |-> "stdout", n |-> 0, text |-> <<"Fetching from URL:", source>>]>>]
              ELSE [ok |-> FALSE, text |-> << >>,
                    out |-> <<[stream |-> "stdout", n |-> 0, text |-> <<"Fetching from URL:", source>>],
                              [stream |-> "stderr", n |-> 0, text |-> <<"Error fetching URL", source>>]>>]
         ELSE [ok |-> FALSE, text |-> << >>,
               out |-> <<[stream |-> "stderr", n |-> 0,
                          text |-> <<"Error:", source, "is neither a valid file path nor a URL">>]>>]

source_to_filename(source) ==
    CASE source = "page.html" -> "page.csv"
      [] source = "locked.html" -> "locked.csv"
      [] source = "https://h/p" -> "h_p.csv"
      [] source = "https://down/p" -> "down_p.csv"
      [] source = "nowhere" -> "nowhere.csv"

(***************************************************************************)
(* html_scanner_dynamic.py                                                 *)
(***************************************************************************)
\* f'capturing_group_{i+1}' for i = n - 1
capturing_group(n) ==
    <<"capturing_group_1", "capturing_group_2", "capturing_group_3",
      "capturing_group_4", "capturing_group_5", "capturing_group_6",
      "capturing_group_7">>[n]

\* generic_group_names with "not has_named_groups and" left out of its test
generic_group_names_unguarded(named, ms, names) ==
    IF Len(ms) > 0
    THEN [i \in 1..Cardinality(DOMAIN ms[1]) |-> capturing_group(i)]
    ELSE names

\* scan_with_regex: the column names when no group is named, taken from the
\* first match
generic_group_names(named, ms, names) ==
    IF ~named /\ Len(ms) > 0
    THEN [i \in 1..Len(ms[1]) |-> capturing_group(i)]
    ELSE names

\* one match as scan_with_regex keeps it: the groupdict, the groups, or the
\* whole match alone
match_entry(m, cp, html_content) ==
    IF Len(cp.names) > 0 THEN groupdict(m, cp)
    ELSE IF cp.groups > 0 THEN groups(m, cp)
         ELSE <<group0(m, html_content)>>

\* [ok, matches, group_names, has_named_groups, err]
scan_with_regex_dynamic(html_content, pattern) ==
    Bind(re_compile(pattern), LAMBDA compiled_pattern :
      IF ~compiled_pattern.ok
      THEN [ok |-> FALSE, matches |-> << >>, group_names |-> << >>,
            has_named_groups |-> FALSE, err |-> compiled_pattern.err]
      ELSE Bind(finditer(compiled_pattern, html_content), LAMBDA matches_raw :
             Bind([k \in 1..Len(matches_raw) |->
                     match_entry(matches_raw[k], compiled_pattern, html_content)]
                  \o << >>,
                  LAMBDA ms :
                    [ok |-> TRUE, matches |-> ms,
                     group_names |->
                        generic_group_names(Len(compiled_pattern.names) > 0, ms,
                                            compiled_pattern.names),
                     has_named_groups |-> Len(compiled_pattern.names) > 0,
                     err |-> << >>])))

base_columns == <<"csv_output_name", "regex_pattern">>

\* dict.get(name)
dict_get(d, name) == IF name \in DOMAIN d THEN d[name] ELSE None

\* pd.DataFrame(data, columns=columns): raises ValueError when a row and the
\* columns differ in length
DataFrame(data, columns) ==
    IF \E k \in 1..Len(data) : Len(data[k]) # Len(columns)
    THEN [ok |-> FALSE, columns |-> columns, data |-> << >>]
    ELSE [ok |-> TRUE, columns |-> columns, data |-> data]

\* create_dataframe with data.insert(0, row) for data.append(row): the rows
\* come out in the reverse of the order of the matches
create_dataframe_dynamic_prepend(ms, names, named, csv_name, pattern) ==
    IF Len(ms) = 0
    THEN DataFrame(<< >>, IF Len(names) > 0 THEN base_columns \o names
                                             ELSE base_columns)
    ELSE DataFrame(
           [k \in 1..Len(ms) |->
              <<csv_name, pattern>> \o
              (IF named
               THEN [j \in 1..Len(names) |-> dict_get(ms[Len(ms) + 1 - k], names[j])]
               ELSE ms[Len(ms) + 1 - k])],
           base_columns \o names)

\* create_dataframe: the rows [csv_name, pattern, values...] under the base
\* columns and the group names
create_dataframe_dynamic(ms, names, named, csv_name, pattern) ==
    IF Len(ms) = 0
    THEN DataFrame(<< >>, IF Len(names) > 0 THEN base_columns \o names
                                             ELSE base_columns)
    ELSE DataFrame(
           [k \in 1..Len(ms) |->
              <<csv_name, pattern>> \o
              (IF named THEN [j \in 1..Len(names) |-> dict_get(ms[k], names[j])]
                        ELSE ms[k])],
           base_columns \o names)

\* drop_duplicates that drops a row only when exactly one earlier row agrees
\* with it: the first repeat goes, later repeats stay
drop_duplicates_first_repeat(frame, subset) ==
    LET key == {j \in 1..Len(frame.columns) : frame.columns[j] \in subset}
        dup(i) == Cardinality({h \in 1..(i - 1) :
                     \A j \in key : frame.data[h][j] = frame.data[i][j]}) = 1
        kept == {i \in 1..Len(frame.data) : ~dup(i)}
        pick[i \in 0..Len(frame.data)] ==
            IF i = 0 THEN << >>
            ELSE IF i \in kept THEN Append(pick[i - 1], frame.data[i])
                 ELSE pick[i - 1]
    IN  [frame EXCEPT !.data = pick[Len(frame.data)]]

\* df.drop_duplicates(subset=subset), keep='first': a row goes when an
\* earlier row agrees with it on every column whose name is in subset
drop_duplicates(frame, subset) ==
    LET key == {j \in 1..Len(frame.columns) : frame.columns[j] \in subset}
        dup(i) == \E h \in 1..(i - 1) :
                     \A j \in key : frame.data[h][j] = frame.data[i][j]
        kept == {i \in 1..Len(frame.data) : ~dup(i)}
        pick[i \in 0..Len(frame.data)] ==
            IF i = 0 THEN << >>
            ELSE IF i \in kept THEN Append(pick[i - 1], frame.data[i])
                 ELSE pick[i - 1]
    IN  [frame EXCEPT !.data = pick[Len(frame.data)]]

\* main: capturing_cols
capturing_cols_dynamic(frame) ==
    {frame.columns[j] : j \in 1..Len(frame.columns)}
        \ {"csv_output_name", "regex_pattern"}

(***************************************************************************)
(* html_scanner.py                                                         *)
(***************************************************************************)
FixedGroups == 5

scan_with_regex_static(html_content, pattern) ==
    Bind(re_compile(pattern), LAMBDA compiled_pattern :
      IF ~compiled_pattern.ok
      THEN [ok |-> FALSE, matches |-> << >>, err |-> compiled_pattern.err]
      ELSE Bind(findall(compiled_pattern, html_content), LAMBDA found :
             [ok |-> TRUE, err |-> << >>,
              matches |->
                 IF Len(found) = 0 THEN << >>
                 ELSE IF ~found[1].tuple
                      THEN [k \in 1..Len(found) |-> <<found[k].v>>]
                      ELSE [k \in 1..Len(found) |-> found[k].v]]))

static_columns ==
    base_columns \o [i \in 1..FixedGroups |-> capturing_group(i)]

create_dataframe_static(ms, csv_name, pattern) ==
    IF Len(ms) = 0 THEN DataFrame(<< >>, static_columns)
    ELSE DataFrame(
           [k \in 1..Len(ms) |->
              <<csv_name, pattern>> \o
              [i \in 1..FixedGroups |->
                 IF i <= Len(ms[k]) THEN ms[k][i] ELSE None]],
           static_columns)

capturing_cols_static == {capturing_group(i) : i \in 1..FixedGroups}

(***************************************************************************)
(* One run of a scanner: the statements of main().                         *)
(***************************************************************************)
Line(stream, text) == [stream |-> stream, text |-> text, n |-> 0]
LineN(stream, text, n) == [stream |-> stream, text |-> text, n |-> n]

\* sys.exit(1)
Exit1 == pc' = "exit" /\ status' = 1

NoFrame == [ok |-> TRUE, columns |-> << >>, data |-> << >>]

IdleScanner ==
    /\ script = Static
    /\ args = [source |-> "nowhere", output |-> NoArg, pattern |-> "(",
               show_pattern |-> FALSE, distinct |-> FALSE,
               source_as_filename |-> FALSE]
    /\ page = << >>
    /\ pc = "idle"
    /\ output_file = NoArg
    /\ content = << >>
    /\ matches = << >>
    /\ group_names = << >>
    /\ has_named_groups = FALSE
    /\ df = NoFrame
    /\ out = << >>
    /\ files = << >>
    /\ status = 0

IdleBatch ==
    /\ jobs = << >>
    /\ row_num = 0
    /\ launched = << >>
    /\ bout = << >>
    /\ bpc = "idle"

NoException == ""

IdleSql ==
    /\ csv_exists = FALSE
    /\ csv_rows = << >>
    /\ read = 0
    /\ headers = << >>
    /\ clean_headers = << >>
    /\ first_row = TRUE
    /\ query_lines = << >>
    /\ sql_files = << >>
    /\ raised = NoException
    /\ qpc = "idle"

\* parser.parse_args(): any command line either parser accepts, and any text
\* behind a source that can be retrieved
InitScanner ==
    /\ script \in Scripts
    /\ args \in [source : Sources, output : {NoArg, "out.csv"},
                 pattern : PatternTexts, show_pattern : BOOLEAN,
                 distinct : BOOLEAN, source_as_filename : BOOLEAN]
    /\ args.show_pattern => script = Dynamic
    /\ page \in Texts
    /\ ~Retrievable(args.source) => page = << >>
    /\ pc = IF script = Dynamic THEN "show" ELSE "name"
    /\ output_file = NoArg
    /\ content = << >>
    /\ matches = << >>
    /\ group_names = << >>
    /\ has_named_groups = FALSE
    /\ df = NoFrame
    /\ out = << >>
    /\ files = << >>
    /\ status = 0

\* html_scanner_dynamic.py main: if args.show_pattern
ShowPattern ==
    /\ pc = "show"
    /\ LET p == re_compile(args.pattern)
           shown == Append(out, Line("stdout", <<"Pattern:", args.pattern>>))
       IN  IF ~args.show_pattern
           THEN pc' = "name" /\ UNCHANGED <<out, status>>
           ELSE IF p.ok
                THEN /\ out' = Append(shown,
                                 IF Len(p.names) > 0
                                 THEN Line("stdout", <<"Named groups found:">> \o p.names)
                                 ELSE Line("stdout", <<"Using numbered capturing groups">>))
                     /\ pc' = "name"
                     /\ UNCHANGED status
                ELSE /\ out' = Append(shown, Line("stdout", <<"Pattern error:">> \o p.err))
                     /\ Exit1
    /\ UNCHANGED <<script, args, page, output_file, content, matches,
                   group_names, has_named_groups, df, files, batch_vars, sql_vars>>

\* main: determine output filename
OutputName ==
    /\ pc = "name"
    /\ IF args.source_as_filename
       THEN /\ output_file' = source_to_filename(args.source)
            /\ out' = Append(out, Line("stdout",
                         <<"Using source-based filename:", source_to_filename(args.source)>>))
            /\ pc' = "fetch"
            /\ UNCHANGED status
       ELSE IF args.output # NoArg
            THEN /\ output_file' = args.output
                 /\ pc' = "fetch"
                 /\ UNCHANGED <<out, status>>
            ELSE /\ out' = Append(out, Line("stderr",
                              <<"Error: Either provide output filename or use --source-as-filename flag">>))
                 /\ Exit1
                 /\ UNCHANGED output_file
    /\ UNCHANGED <<script, args, page, content, matches, group_names,
                   has_named_groups, df, files, batch_vars, sql_vars>>

\* main: content = fetch_content(args.source)
Fetch ==
    /\ pc = "fetch"
    /\ \E r \in {fetch_content(args.source, page)} :
           /\ out' = out \o r.out
           /\ IF r.ok
              THEN content' = r.text /\ pc' = "scan" /\ UNCHANGED status
              ELSE Exit1 /\ UNCHANGED content
    /\ UNCHANGED <<script, args, page, output_file, matches, group_names,
                   has_named_groups, df, files, batch_vars, sql_vars>>

\* html_scanner_dynamic.py main: scan_with_regex and the report of its result
ScanDynamic ==
    /\ pc = "scan" /\ script = Dynamic
    /\ \E r \in {scan_with_regex_dynamic(content, args.pattern)} :
       LET scanning == Append(out, Line("stdout", <<"Scanning with pattern:", args.pattern>>))
       IN  IF ~r.ok
           THEN /\ out' = Append(scanning, Line("stderr", <<"Invalid regex pattern:">> \o r.err))
                /\ Exit1
                /\ UNCHANGED <<matches, group_names, has_named_groups>>
           ELSE /\ matches' = r.matches
                /\ group_names' = r.group_names
                /\ has_named_groups' = r.has_named_groups
                /\ out' = scanning \o
                     << LineN("stdout", <<"Found", "matches">>, Len(r.matches)),
                        IF r.has_named_groups
                        THEN Line("stdout", <<"Using named groups:">> \o r.group_names)
                        ELSE LineN("stdout", <<"Using", "capturing groups">>,
                                   Len(r.group_names)) >>
                /\ pc' = "frame"
                /\ UNCHANGED status
    /\ UNCHANGED <<script, args, page, output_file, content, df, files, batch_vars, sql_vars>>

\* an exception nothing catches: the traceback, and exit status 1
Uncaught(exc) ==
    /\ out' = Append(out, Line("stderr", <<"Traceback (most recent call last):", exc>>))
    /\ Exit1

\* html_scanner_dynamic.py main: df = create_dataframe(...)
FrameDynamic ==
    /\ pc = "frame" /\ script = Dynamic
    /\ \E f \in {create_dataframe_dynamic(matches, group_names, has_named_groups,
                                          output_file, args.pattern)} :
           IF f.ok
           THEN df' = f /\ pc' = "distinct" /\ UNCHANGED <<out, status>>
           ELSE Uncaught("ValueError") /\ UNCHANGED df
    /\ UNCHANGED <<script, args, page, output_file, content, matches,
                   group_names, has_named_groups, files, batch_vars, sql_vars>>

\* html_scanner_dynamic.py main: if args.distinct
DistinctDynamic ==
    /\ pc = "distinct" /\ script = Dynamic
    /\ IF args.distinct
       THEN \E d \in {drop_duplicates(df, capturing_cols_dynamic(df))} :
                /\ df' = d
                /\ out' = Append(out, LineN("stdout",
                             <<"After removing duplicates:", "unique matches">>, Len(d.data)))
       ELSE UNCHANGED <<df, out>>
    /\ pc' = "write"
    /\ UNCHANGED <<script, args, page, output_file, content, matches,
                   group_names, has_named_groups, files, status, batch_vars, sql_vars>>

\* html_scanner.py main: scan_with_regex and the report of its result
ScanStatic ==
    /\ pc = "scan" /\ script = Static
    /\ \E r \in {scan_with_regex_static(content, args.pattern)} :
       LET scanning == Append(out, Line("stdout", <<"Scanning with pattern:", args.pattern>>))
       IN  IF ~r.ok
           THEN /\ out' = Append(scanning, Line("stderr", <<"Invalid regex pattern:">> \o r.err))
                /\ Exit1
                /\ UNCHANGED matches
           ELSE /\ matches' = r.matches
                /\ out' = Append(scanning,
                             LineN("stdout", <<"Found", "matches">>, Len(r.matches)))
                /\ pc' = "frame"
                /\ UNCHANGED status
    /\ UNCHANGED <<script, args, page, output_file, content, group_names,
                   has_named_groups, df, files, batch_vars, sql_vars>>

\* html_scanner.py main: df = create_dataframe(...)
FrameStatic ==
    /\ pc = "frame" /\ script = Static
    /\ \E f \in {create_dataframe_static(matches, output_file, args.pattern)} :
           IF f.ok
           THEN df' = f /\ pc' = "distinct" /\ UNCHANGED <<out, status>>
           ELSE Uncaught("ValueError") /\ UNCHANGED df
    /\ UNCHANGED <<script, args, page, output_file, content, matches,
                   group_names, has_named_groups, files, batch_vars, sql_vars>>

\* html_scanner.py main: if args.distinct
DistinctStatic ==
    /\ pc = "distinct" /\ script = Static
    /\ IF args.distinct
       THEN \E d \in {drop_duplicates(df, capturing_cols_static)} :
                /\ df' = d
                /\ out' = Append(out, LineN("stdout",
                             <<"After removing duplicates:", "unique matches">>, Len(d.data)))
       ELSE UNCHANGED <<df, out>>
    /\ pc' = "write"
    /\ UNCHANGED <<script, args, page, output_file, content, matches,
                   group_names, has_named_groups, files, status, batch_vars, sql_vars>>

\* main: df.to_csv(output_file, index=False) and the closing report; main
\* returns and the interpreter exits with status 0
Write ==
    /\ pc = "write"
    /\ files' = Append(files, [name |-> output_file, columns |-> df.columns,
                               data |-> df.data])
    /\ out' = Append(out, Line("stdout", <<"Results saved to:", output_file>>))
    /\ pc' = "exit"
    /\ status' = 0
    /\ UNCHANGED <<script, args, page, output_file, content, matches,
                   group_names, has_named_groups, df, batch_vars, sql_vars>>

Init == InitScanner /\ IdleBatch /\ IdleSql

Next ==
    \/ ShowPattern
    \/ OutputName
    \/ Fetch
    \/ ScanDynamic
    \/ FrameDynamic
    \/ DistinctDynamic
    \/ ScanStatic
    \/ FrameStatic
    \/ DistinctStatic
    \/ Write

Spec == Init /\ [][Next]_vars

(***************************************************************************)
(* batch_runner.py: run_batch_from_csv.                                    *)
(***************************************************************************)
\* the rows csv.DictReader can yield: with the url column, or without it
\* (row.get('url') is None)
JobRows ==
    { [url |-> "https://h/p", output_file |-> "out1.csv", pattern |-> "(\\d+)"],
      [url |-> NoArg, output_file |-> "out2.csv", pattern |-> "x*"] }

RECURSIVE RowsUpTo(_)
RowsUpTo(n) ==
    IF n = 0 THEN {<< >>}
    ELSE LET S == RowsUpTo(n - 1)
         IN  S \cup {Append(js, r) : js \in S, r \in JobRows}

\* what subprocess.run(cmd, ...) can do: return with exit status 0, return
\* with another status, or raise; it raises TypeError when cmd holds None
Outcomes(row) ==
    IF row.url = NoArg THEN {"raised"} ELSE {"returned 0", "returned 1", "raised"}

\* the loop with the except clause left out: an exception leaves the loop
loop_after_uncaught(result) == IF result = "raised" THEN "aborted" ELSE "loop"

\* where the driver stands after a job: the try/except inside the loop body
\* catches whatever the launch raised, so the loop goes on
loop_after(result) == "loop"

InitBatch ==
    /\ jobs \in RowsUpTo(MaxJobs)
    /\ row_num = 0
    /\ launched = << >>
    /\ bout = << >>
    /\ bpc = "loop"

\* one turn of the for loop: the banner, the command, subprocess.run and the
\* report of what it did
RunJob ==
    /\ bpc = "loop"
    /\ row_num < Len(jobs)
    /\ \E row \in {jobs[row_num + 1]} : \E result \in Outcomes(row) :
         /\ launched' = Append(launched, [job |-> row_num + 1, result |-> result])
         /\ bout' = bout \o
              << LineN("stdout", <<"Running job", row.output_file>>, row_num + 1),
                 IF result = "returned 0"
                 THEN Line("stdout", <<"Success:", row.output_file>>)
                 ELSE IF result = "returned 1"
                      THEN Line("stdout", <<"Failed:", row.output_file>>)
                      ELSE LineN("stdout", <<"Exception running job">>, row_num + 1) >>
         /\ bpc' = loop_after(result)
    /\ row_num' = row_num + 1
    /\ UNCHANGED <<jobs, scanner_vars, sql_vars>>

\* the reader is exhausted: the closing banner
FinishBatch ==
    /\ bpc = "loop"
    /\ row_num = Len(jobs)
    /\ bout' = Append(bout, Line("stdout", <<"Batch processing complete!">>))
    /\ bpc' = "done"
    /\ UNCHANGED <<jobs, row_num, launched, scanner_vars, sql_vars>>

BatchInit == IdleScanner /\ InitBatch /\ IdleSql

BatchNext ==
    \/ RunJob
    \/ FinishBatch

SpecBatch == BatchInit /\ [][BatchNext]_vars

\* the driver is a sequential program: it takes its next step when it has one
FairSpecBatch == SpecBatch /\ WF_vars(BatchNext)

(***************************************************************************)
(* csv_to_sql.py: csv_to_sql_query.                                        *)
(***************************************************************************)
\* header cells and data cells as csv.reader yields them (always str)
HeaderNames == { <<"i", "d">>, <<" ", "a", " ", "b", "-", "c", " ">> }
Cells == { <<"v">>, <<"o", "'", "c">> }

RECURSIVE HeadersUpTo(_)
HeadersUpTo(n) ==
    IF n = 0 THEN {<< >>}
    ELSE LET S == HeadersUpTo(n - 1)
         IN  S \cup {Append(h, c) : h \in S, c \in HeaderNames}

\* a data row: any number of cells from none (a blank line) to one more than
\* the widest header
DataRows == {[j \in 1..len |-> c] : len \in 0..(MaxCols + 1), c \in Cells}

RECURSIVE DataUpTo(_)
DataUpTo(n) ==
    IF n = 0 THEN {<< >>}
    ELSE LET S == DataUpTo(n - 1)
         IN  S \cup {Append(d, r) : d \in S, r \in DataRows}

\* what csv.reader yields of the file: nothing (an empty file), or the first
\* row (empty for a blank first line) and the rows after it
CsvFiles ==
    {<< >>} \cup {<<h>> \o d : h \in HeadersUpTo(MaxCols), d \in DataUpTo(MaxRows)}

\* str.strip() and str.replace(old, new) for one-character old and new
RECURSIVE lstrip(_)
lstrip(s) == IF Len(s) > 0 /\ s[1] = " " THEN lstrip(Tail(s)) ELSE s
RECURSIVE rstrip(_)
rstrip(s) ==
    IF Len(s) > 0 /\ s[Len(s)] = " " THEN rstrip(SubSeq(s, 1, Len(s) - 1)) ELSE s
strip(s) == rstrip(lstrip(s))
replace(s, old, new) == [i \in 1..Len(s) |-> IF s[i] = old THEN new ELSE s[i]]

\* header.strip().replace(' ', '_').replace('-', '_')
clean_header(header) == replace(replace(strip(header), " ", "_"), "-", "_")

\* escape_sql_string for a str: every single quote doubled, the whole in
\* single quotes (csv.reader yields no None)
RECURSIVE double_quotes(_)
double_quotes(value) ==
    IF Len(value) = 0 THEN << >>
    ELSE (IF value[1] = "'" THEN <<"'", "'">> ELSE <<value[1]>>)
         \o double_quotes(Tail(value))
escape_sql_string(value) == <<"'">> \o double_quotes(value) \o <<"'">>

\* the row as read, without the padding of short rows
fit_row_unpadded(row, n) == SubSeq(row, 1, IF Len(row) < n THEN Len(row) ELSE n)

\* the row padded with '' up to n cells, then cut to n cells
fit_row(row, n) ==
    SubSeq(row \o [j \in 1..(n - Len(row)) |-> << >>], 1, n)

\* select_values: f"{escaped_value} AS {clean_headers[i]}" for each cell
select_values(row, aliases) ==
    [i \in 1..Len(row) |->
        [value |-> escape_sql_string(row[i]), alias |-> aliases[i]]]

InitSql ==
    /\ csv_exists \in BOOLEAN
    /\ csv_rows \in CsvFiles
    /\ ~csv_exists => csv_rows = << >>
    /\ read = 0
    /\ headers = << >>
    /\ clean_headers = << >>
    /\ first_row = TRUE
    /\ query_lines = << >>
    /\ sql_files = << >>
    /\ raised = NoException
    /\ qpc = "open"

\* csv_file.exists(), open, and the header row
ReadHeader ==
    /\ qpc = "open"
    /\ IF ~csv_exists
       THEN /\ raised' = "FileNotFoundError: CSV file not found"
            /\ qpc' = "raised"
            /\ UNCHANGED <<read, headers, clean_headers>>
       ELSE IF Len(csv_rows) = 0 \/ Len(csv_rows[1]) = 0
            THEN /\ raised' = "ValueError: CSV file is empty or has no headers"
                 /\ qpc' = "raised"
                 /\ read' = IF Len(csv_rows) = 0 THEN 0 ELSE 1
                 /\ UNCHANGED <<headers, clean_headers>>
            ELSE /\ headers' = csv_rows[1]
                 /\ clean_headers' =
                       [i \in 1..Len(csv_rows[1]) |-> clean_header(csv_rows[1][i])]
                 /\ read' = 1
                 /\ qpc' = "rows"
                 /\ UNCHANGED raised
    /\ UNCHANGED <<csv_exists, csv_rows, first_row, query_lines, sql_files,
                   scanner_vars, batch_vars>>

\* one turn of "for row in csv_reader"
ReadRow ==
    /\ qpc = "rows"
    /\ read < Len(csv_rows)
    /\ \E row \in {fit_row(csv_rows[read + 1], Len(headers))} :
         query_lines' = Append(query_lines,
                           [union |-> ~first_row,
                            select |-> select_values(row, clean_headers)])
    /\ first_row' = FALSE
    /\ read' = read + 1
    /\ UNCHANGED <<csv_exists, csv_rows, headers, clean_headers, sql_files,
                   raised, qpc, scanner_vars, batch_vars>>

\* after the loop: no statement is an error, else the query is written
WriteQuery ==
    /\ qpc = "rows"
    /\ read = Len(csv_rows)
    /\ IF Len(query_lines) = 0
       THEN /\ raised' = "ValueError: No data rows found in CSV file"
            /\ qpc' = "raised"
            /\ UNCHANGED sql_files
       ELSE /\ sql_files' = Append(sql_files,
                               [name |-> "data_query.sql", lines |-> query_lines,
                                last |-> ";"])
            /\ qpc' = "returned"
            /\ UNCHANGED raised
    /\ UNCHANGED <<csv_exists, csv_rows, read, headers, clean_headers,
                   first_row, query_lines, scanner_vars, batch_vars>>

SqlInit == IdleScanner /\ IdleBatch /\ InitSql

SqlNext ==
    \/ ReadHeader
    \/ ReadRow
    \/ WriteQuery

SpecSql == SqlInit /\ [][SqlNext]_vars

(***************************************************************************)
(* What the properties below speak of.                                     *)
(***************************************************************************)
\* the capturing groups of a pattern in the order they open in its text
RECURSIVE GroupsOf(_)
GroupsOf(p) ==
    CASE p.t \in {"chr", "eps"} -> << >>
      [] p.t \in {"cat", "alt"} -> GroupsOf(p.l) \o GroupsOf(p.r)
      [] p.t = "grp" -> <<[idx |-> p.idx, name |-> p.name]>> \o GroupsOf(p.p)
      [] p.t \in {"star", "plus", "opt"} -> GroupsOf(p.p)
NamedGroupsOf(p) == SelectSeq(GroupsOf(p), LAMBDA g : g.name # NoName)
UnnamedGroupsOf(p) == SelectSeq(GroupsOf(p), LAMBDA g : g.name = NoName)

\* the pattern of the run compiles, and its syntax tree
Compiles == re_compile(args.pattern).ok
Tree == re_compile(args.pattern).ast

\* the columns after the two metadata columns
GroupColumns(frame) == SubSeq(frame.columns, 3, Len(frame.columns))

\* create_dataframe has returned; at "distinct" its table is still untouched
FrameBuilt == pc \in {"distinct", "write"} \/ (pc = "exit" /\ Len(files) > 0)
FrameFresh == pc = "distinct"

(***************************************************************************)
(* C1: for a pattern with at least one named group the group columns of    *)
(* html_scanner_dynamic.py's table are exactly the named groups in the     *)
(* order they are declared; every row holds the values of those groups of  *)
(* its match and nothing for an unnamed group.                             *)
(***************************************************************************)
C1_NamedColumns ==
    (script = Dynamic /\ FrameBuilt /\ Len(NamedGroupsOf(Tree)) > 0) =>
        \A named \in {NamedGroupsOf(Tree)} :
          /\ GroupColumns(df) = [j \in 1..Len(named) |-> named[j].name]
          /\ \A k \in 1..Len(df.data) : Len(df.data[k]) = 2 + Len(named)
          /\ FrameFresh =>
               \A ms \in {finditer(re_compile(args.pattern), content)} :
                 /\ Len(df.data) = Len(ms)
                 /\ \A k \in 1..Len(ms) : \A j \in 1..Len(named) :
                      df.data[k][2 + j] = ms[k].c[named[j].idx]

\* a table with rows from a pattern that mixes named and unnamed groups
C1_Witness ==
    /\ script = Dynamic /\ FrameFresh
    /\ Len(NamedGroupsOf(Tree)) > 0
    /\ Len(UnnamedGroupsOf(Tree)) > 0
    /\ Len(df.data) > 1

\* the schema a pattern calls for: the metadata columns, then its named
\* groups, or one positional column per group, or one column for the whole
\* match of a pattern without groups
SchemaOf(p) ==
    base_columns \o
    (IF Len(NamedGroupsOf(p)) > 0
     THEN [j \in 1..Len(NamedGroupsOf(p)) |-> NamedGroupsOf(p)[j].name]
     ELSE IF Len(GroupsOf(p)) > 0
          THEN [j \in 1..Len(GroupsOf(p)) |-> capturing_group(j)]
          ELSE <<capturing_group(1)>>)

\* the matches of the run's pattern in the run's content
NoMatch == Len(finditer(re_compile(args.pattern), content)) = 0

(***************************************************************************)
(* C2: when the pattern matches nowhere, html_scanner_dynamic.py's table   *)
(* has no rows and the schema the pattern calls for.                       *)
(***************************************************************************)
C2_EmptyTableSchema ==
    (script = Dynamic /\ FrameBuilt /\ NoMatch) =>
        /\ Len(df.data) = 0
        /\ df.columns = SchemaOf(Tree)

\* the column (counted after the metadata columns) that holds group g
ColumnOfGroup(g) ==
    IF script = Dynamic /\ Len(NamedGroupsOf(Tree)) > 0
    THEN {j \in 1..Len(NamedGroupsOf(Tree)) : NamedGroupsOf(Tree)[j].idx = g}
    ELSE {j \in 1..(Len(df.columns) - 2) : j = g}

(***************************************************************************)
(* C3: in every row a group that took no part in the row's match holds the *)
(* absent marker None, no match is dropped, and every row is as long as    *)
(* the schema.                                                             *)
(***************************************************************************)
C3_AbsentMarker ==
    FrameFresh =>
        \A ms \in {finditer(re_compile(args.pattern), content)} :
          /\ Len(df.data) = Len(ms)
          /\ \A k \in 1..Len(ms) :
               /\ Len(df.data[k]) = Len(df.columns)
               /\ \A g \in 1..re_compile(args.pattern).groups :
                    \A j \in ColumnOfGroup(g) :
                      ~ms[k].c[g].some => df.data[k][2 + j] = None

(***************************************************************************)
(* C4: the column names of html_scanner_dynamic.py's table are unique,     *)
(* also when a named group bears the name of a metadata column: the        *)
(* metadata columns keep their names and the group column gets another.    *)
(***************************************************************************)
C4_UniqueColumns ==
    (script = Dynamic /\ FrameBuilt) =>
        /\ SubSeq(df.columns, 1, 2) = base_columns
        /\ \A i, j \in 1..Len(df.columns) :
             df.columns[i] = df.columns[j] => i = j

\* the rows of data that agree with no earlier row on the columns from 3 on
FirstOfEachClass(data) ==
    LET same(h, i) == SubSeq(data[h], 3, Len(data[h])) = SubSeq(data[i], 3, Len(data[i]))
        keep == {i \in 1..Len(data) : \A h \in 1..(i - 1) : ~same(h, i)}
        pick[i \in 0..Len(data)] ==
            IF i = 0 THEN << >>
            ELSE IF i \in keep THEN Append(pick[i - 1], data[i]) ELSE pick[i - 1]
    IN  pick[Len(data)]

(***************************************************************************)
(* C5: with --distinct the table written by html_scanner_dynamic.py is the *)
(* table create_dataframe built less every row whose group values (all     *)
(* columns after the two metadata columns) equal those of an earlier row;  *)
(* without --distinct it is that table.                                    *)
(***************************************************************************)
C5_DistinctReduction ==
    (script = Dynamic /\ pc = "write") =>
        \A built \in {create_dataframe_dynamic(matches, group_names,
                         has_named_groups, output_file, args.pattern)} :
          df.data = IF args.distinct THEN FirstOfEachClass(built.data)
                                     ELSE built.data

KeyColumns == IF script = Dynamic THEN capturing_cols_dynamic(df)
                                  ELSE capturing_cols_static

(***************************************************************************)
(* C6: distinct reduction is idempotent: reducing the reduced table again  *)
(* changes nothing, for the table and the key columns of either scanner.   *)
(***************************************************************************)
C6_DedupIdempotent ==
    FrameFresh =>
        \A once \in {drop_duplicates(df, KeyColumns)} :
          drop_duplicates(once, KeyColumns) = once

\* a table in which a row occurs three times, so the reduction removes rows
C6_Witness ==
    /\ FrameFresh
    /\ Len(df.data) >= 3
    /\ Len(drop_duplicates(df, KeyColumns).data) + 2 <= Len(df.data)

\* the run has reached a re.compile of its pattern
CompileReached ==
    \/ script = Dynamic /\ args.show_pattern /\ pc # "show"
    \/ pc \in {"frame", "distinct", "write"}
    \/ pc = "exit" /\ output_file # NoArg /\ Retrievable(args.source)

PatternErrorLines ==
    {k \in 1..Len(out) : out[k].text[1] \in {"Invalid regex pattern:", "Pattern error:"}}

StoppedAtPatternError ==
    /\ pc = "exit" /\ status # 0
    /\ Cardinality(PatternErrorLines) = 1
    /\ Len(out) \in PatternErrorLines
    /\ matches = << >> /\ df = NoFrame /\ files = << >>

(***************************************************************************)
(* C7: when the pattern is not valid regex syntax, the run reports one     *)
(* error, which holds the text of the offending pattern, and stops there:  *)
(* nothing is matched, built, reduced or written afterwards.               *)
(***************************************************************************)
C7_PatternErrorReported ==
    (CompileReached /\ ~Compiles) =>
        /\ StoppedAtPatternError
        /\ \A k \in PatternErrorLines :
             \E i \in 1..Len(out[k].text) : out[k].text[i] = args.pattern

(***************************************************************************)
(* C10: for a pattern without capturing groups the table has exactly one   *)
(* group column, and the one group value of each row is the whole text of  *)
(* the row's match.                                                        *)
(***************************************************************************)
C10_WholeMatchColumn ==
    (FrameBuilt /\ Len(GroupsOf(Tree)) = 0) =>
        /\ Len(GroupColumns(df)) = 1
        /\ \A k \in 1..Len(df.data) : Len(df.data[k]) = 3
        /\ FrameFresh =>
             \A ms \in {finditer(re_compile(args.pattern), content)} :
               /\ Len(df.data) = Len(ms)
               /\ \A k \in 1..Len(ms) : df.data[k][3] = group0(ms[k], content)

\* job k of the list was reported as failed, right after its banner
ReportedFailed(k) ==
    /\ 2 * k <= Len(bout)
    /\ \/ launched[k].result = "returned 1"
          /\ bout[2 * k].text = <<"Failed:", jobs[k].output_file>>
       \/ launched[k].result = "raised"
          /\ bout[2 * k].text = <<"Exception running job">>
          /\ bout[2 * k].n = k

BatchInOrder ==
    /\ Len(launched) = row_num
    /\ row_num <= Len(jobs)
    /\ \A k \in 1..Len(launched) :
         /\ launched[k].job = k
         /\ bout[2 * k - 1].n = k
         /\ launched[k].result # "returned 0" => ReportedFailed(k)
    /\ bpc \in {"loop", "done"}
    /\ bpc = "done" =>
         /\ row_num = Len(jobs)
         /\ bout[Len(bout)].text = <<"Batch processing complete!">>

(***************************************************************************)
(* C8: the batch driver attempts every job exactly once, in list order,    *)
(* reports every job that failed (exit status not 0, or an exception from  *)
(* the launch), and always reaches the end of the list and its completion  *)
(* message.                                                                *)
(***************************************************************************)
C8_BatchIsolation == [] BatchInOrder /\ <>(bpc = "done")

\* a finished batch in which a job raised, a job returned 1, and the job
\* after the failures ran and returned 0
C8_Witness ==
    /\ bpc = "done"
    /\ \E h, i, j \in 1..Len(launched) :
         /\ h < j /\ i < j
         /\ launched[h].result = "raised"
         /\ launched[i].result = "returned 1"
         /\ launched[j].result = "returned 0"

\* the run has reached fetch_content
RetrievalReached ==
    \/ pc \in {"scan", "frame", "distinct", "write"}
    \/ pc = "exit" /\ output_file # NoArg

RetrievalErrors ==
    { <<"Error reading file", args.source>>,
      <<"Error fetching URL", args.source>>,
      <<"Error:", args.source, "is neither a valid file path nor a URL">> }

\* the table the whole pipeline makes of the page
FinalTable ==
    IF script = Dynamic
    THEN Bind(scan_with_regex_dynamic(page, args.pattern), LAMBDA r :
           Bind(create_dataframe_dynamic(r.matches, r.group_names,
                   r.has_named_groups, output_file, args.pattern), LAMBDA f :
             IF args.distinct THEN drop_duplicates(f, capturing_cols_dynamic(f))
                              ELSE f))
    ELSE Bind(scan_with_regex_static(page, args.pattern), LAMBDA r :
           Bind(create_dataframe_static(r.matches, output_file, args.pattern),
                LAMBDA f :
             IF args.distinct THEN drop_duplicates(f, capturing_cols_static)
                              ELSE f))

(***************************************************************************)
(* C9: when retrieval or compilation fails the run exits with a status     *)
(* other than 0 and a message naming the stage that failed, and writes no  *)
(* file; a file is written at most once, and only once retrieval,          *)
(* compilation, matching, the building of the table and the optional       *)
(* reduction are all done.                                                 *)
(***************************************************************************)
C9_NoOutputOnFailure ==
    /\ Len(files) <= 1
    /\ Len(files) = 1 =>
         /\ pc = "exit" /\ status = 0
         /\ Retrievable(args.source) /\ Compiles
         /\ files[1].name = output_file
         /\ files[1].columns = FinalTable.columns
         /\ files[1].data = FinalTable.data
    /\ (RetrievalReached /\ ~Retrievable(args.source)) =>
         /\ pc = "exit" /\ status # 0 /\ Len(files) = 0
         /\ out[Len(out)].stream = "stderr"
         /\ out[Len(out)].text \in RetrievalErrors
    /\ (CompileReached /\ ~Compiles) =>
         /\ pc = "exit" /\ status # 0 /\ Len(files) = 0
         /\ Len(out) \in PatternErrorLines

\* a run whose source was retrieved and whose pattern then failed to compile
C9_Witness ==
    /\ pc = "exit" /\ status = 1
    /\ ~args.show_pattern
    /\ output_file # NoArg /\ Retrievable(args.source) /\ Len(content) > 0
    /\ ~Compiles

\* the values of row k of the frame after the two metadata columns
GroupValues(frame, k) == SubSeq(frame.data[k], 3, Len(frame.data[k]))

(***************************************************************************)
(* C11: for a pattern with no named group and k >= 1 capturing groups the  *)
(* group columns are capturing_group_1 .. capturing_group_k, and each row  *)
(* holds the values of all k groups of its match in declaration order.     *)
(***************************************************************************)
C11_PositionalColumns ==
    (FrameBuilt /\ Len(NamedGroupsOf(Tree)) = 0 /\ Len(GroupsOf(Tree)) >= 1) =>
        \A k \in {Len(GroupsOf(Tree))} :
          /\ GroupColumns(df) = [j \in 1..k |-> capturing_group(j)]
          /\ FrameFresh =>
               \A ms \in {finditer(re_compile(args.pattern), content)} :
                 /\ Len(df.data) = Len(ms)
                 /\ \A i \in 1..Len(ms) :
                      GroupValues(df, i) = [j \in 1..k |-> ms[i].c[j]]

\* what a row holds of match m: the named groups, or all the groups, or the
\* whole match of a pattern without groups
ValuesOfMatch(m) ==
    IF Len(NamedGroupsOf(Tree)) > 0
    THEN [j \in 1..Len(NamedGroupsOf(Tree)) |-> m.c[NamedGroupsOf(Tree)[j].idx]]
    ELSE IF Len(GroupsOf(Tree)) > 0
         THEN [j \in 1..Len(GroupsOf(Tree)) |-> m.c[j]]
         ELSE <<group0(m, content)>>

\* the table create_dataframe returned has one row per match, in the order
\* of the matches in the text, each after the tag and the pattern text
RowsInMatchOrder(tag) ==
    \A ms \in {finditer(re_compile(args.pattern), content)} :
      /\ Len(df.data) = Len(ms)
      /\ \A i \in 1..Len(ms) :
           /\ df.data[i][1] = tag
           /\ df.data[i][2] = args.pattern
           /\ GroupValues(df, i) = ValuesOfMatch(ms[i])
      /\ \A i \in 1..(Len(ms) - 1) :
           ms[i].start <= ms[i + 1].start /\ ms[i].end <= ms[i + 1].start

RecordValues(k) ==
    IF script = Dynamic /\ has_named_groups
    THEN [j \in 1..Len(group_names) |-> matches[k][group_names[j]]]
    ELSE matches[k]

(***************************************************************************)
(* C13: create_dataframe neither truncates nor pads: every row holds       *)
(* exactly the values of its match record, and a table is never built from *)
(* a record whose number of values differs from the number of group        *)
(* columns (such a run aborts instead).                                    *)
(***************************************************************************)
C13_NoTruncationOrPadding ==
    /\ FrameFresh =>
         /\ Len(df.data) = Len(matches)
         /\ \A k \in 1..Len(matches) : GroupValues(df, k) = RecordValues(k)
    /\ FrameBuilt =>
         \A k \in 1..Len(matches) :
           Len(RecordValues(k)) = Len(GroupColumns(df))

\* the columns of the table the run's scanner makes of text t with the
\* run's pattern
ColumnsFor(t) ==
    IF script = Dynamic
    THEN Bind(scan_with_regex_dynamic(t, args.pattern), LAMBDA r :
           create_dataframe_dynamic(r.matches, r.group_names,
               r.has_named_groups, output_file, args.pattern).columns)
    ELSE Bind(scan_with_regex_static(t, args.pattern), LAMBDA r :
           create_dataframe_static(r.matches, output_file, args.pattern).columns)

(***************************************************************************)
(* C14: the columns of the table depend on the pattern only: a run with    *)
(* the same pattern over any other text, a text without a match included,  *)
(* has the same columns.                                                   *)
(***************************************************************************)
C14_SchemaFromPatternOnly ==
    FrameFresh => \A t \in Texts : ColumnsFor(t) = df.columns

\* csv_to_sql_query has ended, by returning or by raising
SqlEnded == qpc \in {"returned", "raised"}

(***************************************************************************)
(* C15: for a CSV file with a header of n >= 1 columns and m >= 1 data     *)
(* rows of any lengths, csv_to_sql_query writes m SELECT statements in the *)
(* order of the rows, each of n values under the n cleaned headers (a      *)
(* short row filled up with empty strings, a long row cut), the first      *)
(* without and each later one after UNION ALL; with an empty header or no  *)
(* data row it raises an error and writes no file.                         *)
(***************************************************************************)
C15_UnionAllQuery ==
    /\ Len(sql_files) <= 1
    /\ qpc = "raised" => Len(sql_files) = 0
    /\ (SqlEnded /\ csv_exists /\ Len(csv_rows) >= 2 /\ Len(csv_rows[1]) >= 1) =>
         /\ qpc = "returned"
         /\ Len(sql_files) = 1
         /\ \A n \in {Len(csv_rows[1])} : \A lines \in {sql_files[1].lines} :
              /\ Len(lines) = Len(csv_rows) - 1
              /\ \A k \in 1..Len(lines) :
                   /\ lines[k].union = (k > 1)
                   /\ Len(lines[k].select) = n
                   /\ \A j \in 1..n :
                        /\ lines[k].select[j].alias = clean_header(csv_rows[1][j])
                        /\ lines[k].select[j].value =
                             escape_sql_string(
                               IF j <= Len(csv_rows[k + 1])
                               THEN csv_rows[k + 1][j] ELSE << >>)
    /\ (SqlEnded /\ csv_exists /\ (Len(csv_rows) < 2 \/ Len(csv_rows[1]) = 0)) =>
         /\ qpc = "raised"
         /\ raised \in {"ValueError: CSV file is empty or has no headers",
                        "ValueError: No data rows found in CSV file"}

\* a query written from a file whose rows include one shorter and one
\* longer than its header of two columns
C15_Witness ==
    /\ qpc = "returned"
    /\ Len(csv_rows[1]) = 2
    /\ \E h, k \in 2..Len(csv_rows) :
         Len(csv_rows[h]) < 2 /\ Len(csv_rows[k]) > 2
====
